---- MODULE Spec2Model ----
(***************************************************************************)
(* Model of the notion client's record reconstruction pipeline:            *)
(*   - Client.GetBlock: the loadPageChunk pagination loop,                 *)
(*   - mergeRecordMaps: the per-category last-write-wins merger,           *)
(*   - Client.parseBlockFromRecordMaps: root lookup, flat block map and    *)
(*     the ResolveBlock call,                                              *)
(*   - notiontypes.parseInlineBlocks: the rich-text span parser.           *)
(*                                                                         *)
(* Three specifications share the module:                                  *)
(*   Spec        one GetBlock call against a nondeterministic server,      *)
(*   SpecMerge   mergeRecordMaps applied to bounded sequences of maps,     *)
(*   SpecInline  parseInlineBlocks applied to bounded JSON values.         *)
(***************************************************************************)
EXTENDS Integers, Sequences, FiniteSets, TLC

VARIABLES
  pc,        \* position of the GetBlock call: "post", "await", "parse", "done", "overflow"
  blockID,   \* GetBlock's argument
  lp,        \* the loadPageChunkRequest value GetBlock keeps across iterations
  sent,      \* requests put on the wire, in order
  recv,      \* decoded loadPageChunkResponse values, in order
  failedAt,  \* index of the round trip that failed, 0 when none did
  results,   \* GetBlock's local slice of partial record maps
  calls,     \* names of the functions parseBlockFromRecordMaps has called
  rm,        \* parseBlockFromRecordMaps's merged map (<<>> before it exists)
  blocks,    \* the flat id -> *Block map handed to ResolveBlock (<<>> before)
  ret,       \* GetBlock's return value [block, err]
  mg,        \* state of the mergeRecordMaps harness
  il         \* state of the parseInlineBlocks harness

vars == <<pc, blockID, lp, sent, recv, failedAt, results, calls, rm, blocks, ret, mg, il>>

fetchVars == <<pc, blockID, lp, sent, recv, failedAt, results, calls, rm, blocks, ret>>

(***************************************************************************)
(* Bounds                                                                  *)
(***************************************************************************)
\* The server holds at most MaxPages pages: its MaxPages-th answer ends the paging.
MaxPages == 3

\* Length of the longest sequence of record maps handed to mergeRecordMaps.
MaxMaps == 3

(***************************************************************************)
(* Errors. An error value is a record; NoErr is Go's nil error.            *)
(***************************************************************************)
Err(msg, cause, id) == [msg |-> msg, cause |-> cause, id |-> id]

NoErr == Err("", "", "")

ErrTransport == Err("performing request", "", "")

ErrUnmarshal == Err("unmarshaling loadPageChunkResponse", "", "")

ErrMissingBlock == Err("notion: missing block id in block list", "", "")

ErrMissingChild(id) == Err("missing block", "", id)

\* Not an error value of the code: the outcome of a resolution that re-enters
\* block id while still resolving it, from where the recursion repeats without
\* end and never returns.
Unbounded(id) == Err("unbounded recursion", "", id)

Diverges(err) == err.msg = "unbounded recursion" \/ err.cause = "unbounded recursion"

\* errors.Wrap(err, msg)
Wrap(err, msg) == Err(msg, err.msg, err.id)

(***************************************************************************)
(* Records                                                                 *)
(***************************************************************************)
EmptyMap == [k \in {} |-> k]

Categories == {"Blocks", "Space", "Users", "Collections", "CollectionViews"}

\* notiontypes.Block, reduced to the fields the pipeline reads and writes.
\* Content is nil until the resolver fills it.
Block(id, alive, contentIDs) ==
  [ID |-> id, Alive |-> alive, ContentIDs |-> contentIDs, Content |-> <<>>]

BlockWithRole(role, value) == [Role |-> role, Value |-> value]

RecordMap(b, s, u, c, v) ==
  [Blocks |-> b, Space |-> s, Users |-> u, Collections |-> c, CollectionViews |-> v]

EmptyCursor == [Stack |-> <<>>]

\* Cursors with a non-empty position stack, as a server returns them while
\* more pages remain.
MoreCursors == {[Stack |-> <<<<1>>>>], [Stack |-> <<<<1>>, <<2>>>>]}

Cursors == {EmptyCursor} \cup MoreCursors

(***************************************************************************)
(* mergeRecordMaps                                                         *)
(***************************************************************************)
\* Mutant of CopyInto: a key already present keeps its value.
CopyIntoKeepFirst(dst, src) ==
  [k \in (DOMAIN dst) \cup (DOMAIN src) |-> IF k \in DOMAIN dst THEN dst[k] ELSE src[k]]

\* for k, v := range src { dst[k] = v }
CopyInto(dst, src) ==
  [k \in (DOMAIN dst) \cup (DOMAIN src) |-> IF k \in DOMAIN src THEN src[k] ELSE dst[k]]

\* One iteration of the loop over rms: the five range loops.
MergeOne(result, m) ==
  [Blocks          |-> CopyInto(result.Blocks, m.Blocks),
   Space           |-> CopyInto(result.Space, m.Space),
   Users           |-> CopyInto(result.Users, m.Users),
   Collections     |-> CopyInto(result.Collections, m.Collections),
   CollectionViews |-> CopyInto(result.CollectionViews, m.CollectionViews)]

RECURSIVE MergeLoop(_, _)
MergeLoop(result, rms) ==
  IF rms = <<>> THEN result
  ELSE MergeLoop(MergeOne(result, Head(rms)), Tail(rms))

\* Mutant of mergeRecordMaps: the loop stops one input early.
mergeRecordMapsOffByOne(rms) ==
  [rm  |-> MergeLoop(RecordMap(EmptyMap, EmptyMap, EmptyMap, EmptyMap, EmptyMap),
                     SubSeq(rms, 1, Len(rms) - 1)),
   err |-> NoErr]

\* The make() size hints only presize the maps; the result starts with five
\* empty maps. The error returned is always nil.
mergeRecordMaps(rms) ==
  [rm  |-> MergeLoop(RecordMap(EmptyMap, EmptyMap, EmptyMap, EmptyMap, EmptyMap), rms),
   err |-> NoErr]

(***************************************************************************)
(* notiontypes.ResolveBlock: recursive resolution of contentIDs into       *)
(* content, with no guard against a cycle. inProgress is not state of the  *)
(* resolver: it holds the ids on the current recursion path, by which the  *)
(* model recognises the recursion that never returns.                      *)
(***************************************************************************)
RECURSIVE ResolveIn(_, _, _)
RECURSIVE ResolveChildren(_, _, _, _)
ResolveChildren(ids, flat, inProgress, acc) ==
  IF ids = <<>> THEN [err |-> NoErr, content |-> acc]
  ELSE LET id == Head(ids) IN
       IF id \notin DOMAIN flat THEN [err |-> ErrMissingChild(id), content |-> <<>>]
       ELSE IF id \in inProgress THEN [err |-> Unbounded(id), content |-> <<>>]
       ELSE LET r == ResolveIn(flat[id], flat, inProgress \cup {id}) IN
            IF r.err # NoErr THEN [err |-> r.err, content |-> <<>>]
            ELSE ResolveChildren(Tail(ids), flat, inProgress, Append(acc, r.block))

ResolveIn(block, flat, inProgress) ==
  LET c == ResolveChildren(block.ContentIDs, flat, inProgress, <<>>) IN
  IF c.err # NoErr THEN [err |-> c.err, block |-> block]
  ELSE [err |-> NoErr, block |-> [block EXCEPT !.Content = c.content]]

ResolveBlock(block, flat) == ResolveIn(block, flat, {block.ID})

(***************************************************************************)
(* Client.parseBlockFromRecordMaps                                         *)
(***************************************************************************)
\* Mutant of LookupRoot: ok is ignored and an absent id yields a zero record.
LookupRootUnchecked(id, merged) ==
  IF id \in DOMAIN merged.Blocks THEN [ok |-> TRUE, blockBlock |-> <<merged.Blocks[id]>>]
  ELSE [ok |-> TRUE, blockBlock |-> <<BlockWithRole("", Block("", FALSE, <<>>))>>]

\* blockBlock, ok := rm.Blocks[blockID]
LookupRoot(id, merged) ==
  IF id \in DOMAIN merged.Blocks THEN [ok |-> TRUE, blockBlock |-> <<merged.Blocks[id]>>]
  ELSE [ok |-> FALSE, blockBlock |-> <<>>]

\* blocks[k] = v.Value for every k, v of rm.Blocks
BlocksOf(merged) == [k \in DOMAIN merged.Blocks |-> merged.Blocks[k].Value]

parseBlockFromRecordMaps(id, responses) ==
  LET m == mergeRecordMaps(responses) IN
  IF m.err # NoErr
  THEN [block |-> <<>>, err |-> m.err, rm |-> <<>>, blocks |-> <<>>,
        calls |-> <<"mergeRecordMaps">>]
  ELSE LET l == LookupRoot(id, m.rm) IN
       IF ~l.ok
       THEN [block |-> <<>>, err |-> ErrMissingBlock, rm |-> <<m.rm>>, blocks |-> <<>>,
             calls |-> <<"mergeRecordMaps">>]
       ELSE LET block == l.blockBlock[1].Value
                flat  == BlocksOf(m.rm)
                r     == ResolveBlock(block, flat)
            IN  IF r.err # NoErr
                THEN [block |-> <<>>, err |-> Wrap(r.err, "resolveBlock failed"),
                      rm |-> <<m.rm>>, blocks |-> <<flat>>,
                      calls |-> <<"mergeRecordMaps", "ResolveBlock">>]
                ELSE [block |-> <<r.block>>, err |-> NoErr,
                      rm |-> <<m.rm>>, blocks |-> <<flat>>,
                      calls |-> <<"mergeRecordMaps", "ResolveBlock">>]

(***************************************************************************)
(* The server's pages                                                      *)
(***************************************************************************)
BlockIDs == {"r", "a", "b"}

\* The values a server may hold for each block id: children in either order,
\* a tombstoned block, a second level, a reference back (a -> b -> a), and a
\* reference to an id ("c") that no page ever carries.
BlockChoices(id) ==
  CASE id = "r" -> {Block("r", TRUE, <<"a", "b">>), Block("r", TRUE, <<"b", "a">>)}
    [] id = "a" -> {Block("a", TRUE, <<>>), Block("a", FALSE, <<>>), Block("a", TRUE, <<"b">>)}
    [] id = "b" -> {Block("b", TRUE, <<>>), Block("b", TRUE, <<"a">>),
                    Block("b", TRUE, <<"a", "c">>)}

AllBlocks == UNION {BlockChoices(id) : id \in BlockIDs}

BlockMaps ==
  UNION {{[k \in S |-> BlockWithRole("reader", f[k])] :
            f \in {g \in [S -> AllBlocks] : \A k \in S : g[k] \in BlockChoices(k)}} :
         S \in SUBSET BlockIDs}

RichPages == {RecordMap(bm, EmptyMap, EmptyMap, EmptyMap, EmptyMap) : bm \in BlockMaps}

SimplePages ==
  {RecordMap(EmptyMap, EmptyMap, EmptyMap, EmptyMap, EmptyMap),
   RecordMap("r" :> BlockWithRole("reader", Block("r", TRUE, <<"a", "b">>)),
             "s1" :> "space1", EmptyMap, EmptyMap, EmptyMap),
   RecordMap(("a" :> BlockWithRole("reader", Block("a", TRUE, <<>>)))
               @@ ("b" :> BlockWithRole("reader", Block("b", TRUE, <<>>))),
             EmptyMap, "u1" :> "user1", EmptyMap, EmptyMap)}

ServerPages == RichPages \cup SimplePages

\* To keep the page sequences enumerable, at most one page of a fetch is drawn
\* from RichPages; the others are drawn from SimplePages.
PageAllowed(page, earlier) ==
  page \in SimplePages \/ \A i \in 1..Len(earlier) : earlier[i] \in SimplePages

(***************************************************************************)
(* Client.GetBlock                                                         *)
(***************************************************************************)
Limit == 50

\* lp := loadPageChunkRequest{PageID: blockID, Limit: 50, Cursor: Cursor{Stack: {}}}
NewRequest(id) ==
  [PageID |-> id, Limit |-> Limit, Cursor |-> EmptyCursor, VerticalColumns |-> FALSE]

\* Mutant of AdvanceCursor: the next request is built anew from the cursor
\* alone, its other fields left at their zero values.
AdvanceCursorRebuilt(req, r) ==
  [PageID |-> "", Limit |-> 0, Cursor |-> r.Cursor, VerticalColumns |-> FALSE]

\* Mutant of AdvanceCursor: the request keeps its cursor.
AdvanceCursorStale(req, r) == req

\* lp.Cursor = r.Cursor
AdvanceCursor(req, r) == [req EXCEPT !.Cursor = r.Cursor]

\* if len(r.Cursor.Stack) == 0 { break }
LoopBreaks(r) == Len(r.Cursor.Stack) = 0

MgIdle == [rms |-> <<>>, op |-> "idle", i |-> 0, j |-> 0, all |-> <<>>, out |-> <<>>]

IlIdle == [raw |-> <<>>, op |-> "idle", out |-> <<>>]

Init ==
  /\ blockID \in {"r", "a"}
  /\ pc = "post"
  /\ lp = NewRequest(blockID)
  /\ sent = <<>>
  /\ recv = <<>>
  /\ failedAt = 0
  /\ results = <<>>
  /\ calls = <<>>
  /\ rm = <<>>
  /\ blocks = <<>>
  /\ ret = [block |-> <<>>, err |-> NoErr]
  /\ mg = MgIdle
  /\ il = IlIdle

\* c.post(lp, "loadPageChunk"): the request leaves with the current lp.
Post ==
  /\ pc = "post"
  /\ sent' = Append(sent, lp)
  /\ pc' = "await"
  /\ UNCHANGED <<blockID, lp, recv, failedAt, results, calls, rm, blocks, ret, mg, il>>

\* Mutant of PostFails: the loop goes on to another request.
PostFailsRetries ==
  /\ pc = "await"
  /\ failedAt' = Len(sent)
  /\ pc' = "post"
  /\ UNCHANGED <<blockID, lp, sent, recv, results, calls, rm, blocks, ret, mg, il>>

\* c.post returns an error (transport failure or a non-200 status):
\* return nil, err
PostFails ==
  /\ pc = "await"
  /\ failedAt' = Len(sent)
  /\ ret' = [block |-> <<>>, err |-> ErrTransport]
  /\ pc' = "done"
  /\ UNCHANGED <<blockID, lp, sent, recv, results, calls, rm, blocks, mg, il>>

\* json.Unmarshal(b, r) fails: return nil, errors.Wrap(err, ...)
UnmarshalFails ==
  /\ pc = "await"
  /\ failedAt' = Len(sent)
  /\ ret' = [block |-> <<>>, err |-> ErrUnmarshal]
  /\ pc' = "done"
  /\ UNCHANGED <<blockID, lp, sent, recv, results, calls, rm, blocks, mg, il>>

\* The response decodes: append its record map, take its cursor, and leave the
\* loop when the cursor's stack is empty.
Respond ==
  /\ pc = "await"
  /\ \E page \in ServerPages, cur \in Cursors :
       /\ PageAllowed(page, results)
       /\ Len(sent) >= MaxPages => cur = EmptyCursor
       /\ LET r == [RecordMap |-> page, Cursor |-> cur] IN
          /\ recv' = Append(recv, r)
          /\ results' = Append(results, r.RecordMap)
          /\ lp' = AdvanceCursor(lp, r)
          /\ pc' = IF LoopBreaks(r) THEN "parse" ELSE "post"
  /\ UNCHANGED <<blockID, sent, failedAt, calls, rm, blocks, ret, mg, il>>

\* return c.parseBlockFromRecordMaps(blockID, results)
Parse ==
  /\ pc = "parse"
  /\ LET p == parseBlockFromRecordMaps(blockID, results) IN
     /\ rm' = p.rm
     /\ blocks' = p.blocks
     /\ calls' = p.calls
     /\ ret' = IF Diverges(p.err) THEN ret ELSE [block |-> p.block, err |-> p.err]
     /\ pc' = IF Diverges(p.err) THEN "overflow" ELSE "done"
  /\ UNCHANGED <<blockID, lp, sent, recv, failedAt, results, mg, il>>

Next == Post \/ PostFails \/ UnmarshalFails \/ Respond \/ Parse

Spec == Init /\ [][Next]_vars

(***************************************************************************)
(* Helpers of the properties                                               *)
(***************************************************************************)
Range(s) == {s[i] : i \in 1..Len(s)}

\* The record maps of the responses received, in the order received.
ReceivedMaps == [k \in 1..Len(recv) |-> recv[k].RecordMap]

\* A resolved block with its derived field cleared: the wire record again.
Unresolved(b) == [b EXCEPT !.Content = <<>>]

\* Every block of the tree has one content entry per contentIDs entry, in
\* order, each the record the flat map holds under that id.
RECURSIVE TreeLinked(_, _)
TreeLinked(b, flat) ==
  /\ Len(b.Content) = Len(b.ContentIDs)
  /\ \A i \in 1..Len(b.ContentIDs) :
       /\ b.ContentIDs[i] \in DOMAIN flat
       /\ Unresolved(b.Content[i]) = flat[b.ContentIDs[i]].Value
       /\ TreeLinked(b.Content[i], flat)

\* Ids referenced by the blocks of S that the flat map holds.
Children(S, flat) ==
  UNION {Range(flat[k].Value.ContentIDs) : k \in S \cap DOMAIN flat}

RECURSIVE ReachFrom(_, _)
ReachFrom(S, flat) ==
  LET T == S \cup Children(S, flat) IN
  IF T = S THEN S ELSE ReachFrom(T, flat)

\* Some id reachable from root is referenced but absent from the flat map.
MissingReachable(root, flat) == ReachFrom({root}, flat) \ DOMAIN flat # {}

\* Some block reachable from root is reachable from its own children.
CycleReachable(root, flat) ==
  \E k \in ReachFrom({root}, flat) \cap DOMAIN flat :
    k \in ReachFrom(Children({k}, flat), flat)

(***************************************************************************)
(* C1: one GetBlock call issues its requests strictly in order; the first  *)
(* carries the empty cursor, request k+1 carries unmodified the cursor of  *)
(* response k, every response before the last had a non-empty stack, no    *)
(* request follows the response with the empty stack (so exactly N         *)
(* requests for N responses), and the merger gets the N partial maps in    *)
(* fetch order.                                                            *)
(***************************************************************************)
C1_PaginationInOrder ==
  /\ Len(sent) \in {Len(recv), Len(recv) + 1}
  /\ Len(sent) = Len(recv) + 1 <=> (pc = "await" \/ failedAt # 0)
  /\ \A k \in 1..Len(sent) :
       sent[k].Cursor = IF k = 1 THEN EmptyCursor ELSE recv[k - 1].Cursor
  /\ \A k \in 1..Len(recv) :
       /\ k < Len(recv) => Len(recv[k].Cursor.Stack) # 0
       /\ Len(recv[k].Cursor.Stack) = 0 => Len(sent) = k
  /\ (pc = "done" /\ failedAt = 0) =>
       /\ Len(recv) >= 1
       /\ Len(recv[Len(recv)].Cursor.Stack) = 0
       /\ Len(sent) = Len(recv)
       /\ results = ReceivedMaps
       /\ rm = <<MergeLoop(RecordMap(EmptyMap, EmptyMap, EmptyMap, EmptyMap, EmptyMap),
                           ReceivedMaps)>>

\* Three pages, with two different cursors handed over.
C1_Witness ==
  /\ pc = "done"
  /\ failedAt = 0
  /\ Len(sent) = 3
  /\ recv[1].Cursor # recv[2].Cursor
  /\ recv[1].RecordMap # recv[2].RecordMap

(***************************************************************************)
(* C2: a failed round trip, at whatever page index, ends the call: an      *)
(* error and a nil block are returned, the failed request is the last one  *)
(* issued, and neither the merger nor the resolver has run; the merger     *)
(* runs only after the final page was received.                            *)
(***************************************************************************)
C2_FailureAborts ==
  /\ failedAt # 0 =>
       /\ pc = "done"
       /\ ret.err # NoErr
       /\ ret.block = <<>>
       /\ Len(sent) = failedAt
       /\ Len(recv) = failedAt - 1
       /\ calls = <<>>
       /\ rm = <<>>
       /\ blocks = <<>>
  /\ calls # <<>> =>
       /\ failedAt = 0
       /\ Len(recv) >= 1
       /\ Len(recv[Len(recv)].Cursor.Stack) = 0

\* The second round trip fails after a first page with blocks was collected.
C2_Witness ==
  /\ failedAt = 2
  /\ Len(results) = 1
  /\ DOMAIN results[1].Blocks # {}
  /\ ret.err = ErrUnmarshal

(***************************************************************************)
(* C5: when the requested id is not a key of the merged block category,    *)
(* the call fails with the "missing block id" error, returns no block and  *)
(* never invokes the resolver; and a root carried by any one page is       *)
(* found, whichever page carried it.                                       *)
(***************************************************************************)
C5_MissingRoot ==
  /\ (rm # <<>> /\ blockID \notin DOMAIN rm[1].Blocks) =>
       /\ ret.err = ErrMissingBlock
       /\ ret.block = <<>>
       /\ blocks = <<>>
       /\ "ResolveBlock" \notin Range(calls)
  /\ (pc = "done" /\ failedAt = 0) =>
       ((\E i \in 1..Len(results) : blockID \in DOMAIN results[i].Blocks)
          <=> ret.err # ErrMissingBlock)
  /\ ret.err # ErrMissingBlock /\ calls # <<>> => "ResolveBlock" \in Range(calls)

\* Two pages with blocks, none of them the requested root.
C5_Witness ==
  /\ pc = "done"
  /\ ret.err = ErrMissingBlock
  /\ Len(results) = 2
  /\ DOMAIN results[1].Blocks # {}
  /\ DOMAIN results[2].Blocks # {}

(***************************************************************************)
(* C9: after a successful GetBlock, neither the returned root nor any      *)
(* block handed to the resolver has alive = false.                         *)
(***************************************************************************)
C9_NoTombstoneInTree ==
  (pc = "done" /\ ret.err = NoErr) =>
    /\ ret.block[1].Alive
    /\ \A k \in DOMAIN blocks[1] : blocks[1][k].Alive

(***************************************************************************)
(* C10: after a successful resolution every block reachable from the root  *)
(* has its content linked to its contentIDs, in order; and whenever a      *)
(* reachable contentIDs entry is absent from the flat map, the resolution  *)
(* fails with a consistency error and returns no tree.                     *)
(***************************************************************************)
C10_AsClaimed ==
  "ResolveBlock" \in Range(calls) =>
    /\ (pc = "done" /\ ret.err = NoErr) =>
         /\ Unresolved(ret.block[1]) = rm[1].Blocks[blockID].Value
         /\ TreeLinked(ret.block[1], rm[1].Blocks)
    /\ MissingReachable(blockID, rm[1].Blocks) =>
         /\ pc = "done"
         /\ ret.block = <<>>
         /\ ret.err.msg = "resolveBlock failed"
         /\ ret.err.cause = "missing block"

(***************************************************************************)
(* C11: block tree resolution terminates for every finite flat block map:  *)
(* the call returns, and when a cycle of contentIDs is reachable from the  *)
(* root it returns no tree but a "cycle detected" failure.                 *)
(***************************************************************************)
C11_TerminatesOnCycle ==
  "ResolveBlock" \in Range(calls) =>
    /\ pc = "done"
    /\ CycleReachable(blockID, rm[1].Blocks) =>
         /\ ret.block = <<>>
         /\ ret.err.msg = "resolveBlock failed"
         /\ ret.err.cause = "cycle detected"

\* C12: across all loadPageChunk requests issued by one GetBlock call only the
\* cursor changes: every request sent carries pageId equal to the requested
\* block id, limit 50 and the same verticalColumns value, whatever the
\* responses held; the request being prepared (lp) obeys the same.
C12_OnlyCursorChanges ==
  /\ \A i \in 1..Len(sent) :
        /\ sent[i].PageID = blockID
        /\ sent[i].Limit = 50
        /\ sent[i].VerticalColumns = sent[1].VerticalColumns
        /\ sent[i] = [sent[1] EXCEPT !.Cursor = sent[i].Cursor]
  /\ Len(sent) > 0 => lp = [sent[1] EXCEPT !.Cursor = lp.Cursor]

\* Three requests of one fetch with three different cursors, sent after
\* responses that carried blocks.
C12_Witness ==
  /\ Len(sent) = 3
  /\ Len(recv) >= 2
  /\ sent[1].Cursor # sent[2].Cursor
  /\ sent[2].Cursor # sent[3].Cursor
  /\ sent[1].Cursor # sent[3].Cursor
  /\ \E i \in 1..Len(recv) : DOMAIN recv[i].RecordMap.Blocks # {}

(***************************************************************************)
(* mergeRecordMaps on bounded inputs                                       *)
(***************************************************************************)
\* Keys of one category, and the values a key may hold. Values stand for the
\* *XWithRole pointers; the second key has one value only.
CatKeys(cat) == IF cat = "Blocks" THEN {"r", "a"} ELSE {"k1", "k2"}

CatVals(cat, k) ==
  IF cat = "Blocks"
  THEN IF k = "r"
       THEN {BlockWithRole("reader", Block("r", TRUE, <<>>)),
             BlockWithRole("editor", Block("r", FALSE, <<"a">>))}
       ELSE {BlockWithRole("reader", Block("a", TRUE, <<>>))}
  ELSE IF k = "k1" THEN {<<cat, 1>>, <<cat, 2>>} ELSE {<<cat, 3>>}

AllCatVals(cat) == UNION {CatVals(cat, k) : k \in CatKeys(cat)}

\* Every map from a subset of the category's keys to their values.
CatMaps(cat) ==
  UNION {{f \in [S -> AllCatVals(cat)] : \A k \in S : f[k] \in CatVals(cat, k)} :
         S \in SUBSET CatKeys(cat)}

\* What the categories outside the one under study hold: one entry.
Background(cat) == [k \in {"bg"} |-> <<cat, 0>>]

\* A record map whose category cat holds m.
MapWith(cat, m) ==
  [Blocks          |-> IF cat = "Blocks" THEN m ELSE Background("Blocks"),
   Space           |-> IF cat = "Space" THEN m ELSE Background("Space"),
   Users           |-> IF cat = "Users" THEN m ELSE Background("Users"),
   Collections     |-> IF cat = "Collections" THEN m ELSE Background("Collections"),
   CollectionViews |-> IF cat = "CollectionViews" THEN m
                       ELSE Background("CollectionViews")]

\* rms with the segment i..j replaced by its own merge.
Grouped(rms, i, j) ==
  SubSeq(rms, 1, i - 1) \o <<mergeRecordMaps(SubSeq(rms, i, j)).rm>>
    \o SubSeq(rms, j + 1, Len(rms))

\* rms with the maps at i and j exchanged.
Swapped(rms, i, j) ==
  [k \in 1..Len(rms) |-> IF k = i THEN rms[j] ELSE IF k = j THEN rms[i] ELSE rms[k]]

FetchIdle ==
  /\ pc = "idle"
  /\ blockID = ""
  /\ lp = NewRequest("")
  /\ sent = <<>>
  /\ recv = <<>>
  /\ failedAt = 0
  /\ results = <<>>
  /\ calls = <<>>
  /\ rm = <<>>
  /\ blocks = <<>>
  /\ ret = [block |-> <<>>, err |-> NoErr]

MergeInput(rms) ==
  [rms |-> rms, op |-> "input", i |-> 0, j |-> 0, all |-> <<>>, out |-> <<>>]

\* Inputs: sequences of up to MaxMaps record maps. One category varies over
\* all its maps, the other four hold the background.
InitMerge ==
  /\ FetchIdle
  /\ il = IlIdle
  /\ \E n \in 0..MaxMaps : \E cat \in Categories : \E ms \in [1..n -> CatMaps(cat)] :
       mg = MergeInput([i \in 1..n |-> MapWith(cat, ms[i])])

\* mergeRecordMaps(rms...)
MergeAll ==
  /\ mg.op = "input"
  /\ mg' = [mg EXCEPT !.op = "all", !.all = <<mergeRecordMaps(mg.rms).rm>>]
  /\ UNCHANGED <<fetchVars, il>>

\* mergeRecordMaps over rms with one segment merged beforehand.
MergeGrouped ==
  /\ mg.op = "all"
  /\ \E i \in 1..Len(mg.rms) : \E j \in i..Len(mg.rms) :
       mg' = [mg EXCEPT !.op = "grouped", !.i = i, !.j = j,
                        !.out = <<mergeRecordMaps(Grouped(mg.rms, i, j)).rm>>]
  /\ UNCHANGED <<fetchVars, il>>

\* mergeRecordMaps over rms with two of the maps exchanged.
MergeSwapped ==
  /\ mg.op = "all"
  /\ \E i \in 1..Len(mg.rms) : \E j \in (i + 1)..Len(mg.rms) :
       mg' = [mg EXCEPT !.op = "swapped", !.i = i, !.j = j,
                        !.out = <<mergeRecordMaps(Swapped(mg.rms, i, j)).rm>>]
  /\ UNCHANGED <<fetchVars, il>>

NextMerge == MergeAll \/ MergeGrouped \/ MergeSwapped

SpecMerge == InitMerge /\ [][NextMerge]_vars

\* Indexes of the inputs that hold key k in category cat.
Holders(rms, cat, k) == {i \in 1..Len(rms) : k \in DOMAIN rms[i][cat]}

Max(S) == CHOOSE x \in S : \A y \in S : y <= x

\* No key of any category occurs in two of the inputs.
PairwiseDisjoint(rms) ==
  \A cat \in Categories : \A i \in 1..Len(rms) : \A j \in 1..Len(rms) :
    i # j => (DOMAIN rms[i][cat]) \cap (DOMAIN rms[j][cat]) = {}

(***************************************************************************)
(* C3: in each of the five categories the keys of the merged map are       *)
(* exactly the union of the inputs' keys, and each key holds the value of  *)
(* the last input, in sequence order, that contains it.                    *)
(***************************************************************************)
C3_LastWriteWins ==
  mg.all # <<>> =>
    \A cat \in Categories :
      /\ DOMAIN mg.all[1][cat] = UNION {DOMAIN mg.rms[i][cat] : i \in 1..Len(mg.rms)}
      /\ \A k \in DOMAIN mg.all[1][cat] :
           mg.all[1][cat][k] = mg.rms[Max(Holders(mg.rms, cat, k))][cat][k]

\* Three inputs, a key that the first and the last hold with different values
\* and a key that only the middle one holds.
C3_Witness ==
  /\ mg.op = "all"
  /\ Len(mg.rms) = 3
  /\ \E cat \in Categories :
       /\ \E k \in DOMAIN mg.rms[1][cat] \cap DOMAIN mg.rms[3][cat] :
            mg.rms[1][cat][k] # mg.rms[3][cat][k]
       /\ \E k \in DOMAIN mg.rms[2][cat] :
            k \notin DOMAIN mg.rms[1][cat] \cup DOMAIN mg.rms[3][cat]

JStr(x) == [t |-> "string", s |-> x, e |-> <<>>]

JNum(x) == [t |-> "number", s |-> x, e |-> <<>>]

JObj(x) == [t |-> "object", s |-> x, e |-> <<>>]

JArr(elems) == [t |-> "array", s |-> "", e |-> elems]

AttrBold == 1

AttrCode == 2

AttrItalic == 4

AttrStrikeThrought == 8

\* Mutant of BitOr: the flag is added.
BitAdd(x, flag) == x + flag

\* b.AttrFlags |= flag, for a flag of one bit
BitOr(x, flag) == IF (x \div flag) % 2 = 1 THEN x ELSE x + flag

\* &InlineBlock{Text: s}
NewInlineBlock(text) ==
  [Text |-> text, AttrFlags |-> 0, Link |-> "", UserID |-> "", Date |-> <<>>]

IsPlain(b) == b.AttrFlags = 0 /\ b.Link = "" /\ b.UserID = "" /\ b.Date = <<>>

\* How a call ends: it returns (with err, nil or not) or it panics.
Returns(val, err) == [val |-> val, err |-> err, panic |-> FALSE]

Fails(val, msg) == [val |-> val, err |-> Err(msg, "", ""), panic |-> FALSE]

Panics(val) == [val |-> val, err |-> NoErr, panic |-> TRUE]

\* a is the element list of one attribute entry
parseAttribute(b, a) ==
  IF Len(a) = 0 THEN Fails(b, "attribute array is empty")
  ELSE IF a[1].t # "string" THEN Fails(b, "a[0] is not string")
  ELSE LET s == a[1].s IN
       IF Len(a) = 1
       THEN CASE s = "b" -> Returns([b EXCEPT !.AttrFlags = BitOr(@, AttrBold)], NoErr)
              [] s = "i" -> Returns([b EXCEPT !.AttrFlags = BitOr(@, AttrItalic)], NoErr)
              [] s = "s" -> Returns([b EXCEPT !.AttrFlags = BitOr(@, AttrStrikeThrought)], NoErr)
              [] s = "c" -> Returns([b EXCEPT !.AttrFlags = BitOr(@, AttrCode)], NoErr)
              [] OTHER   -> Fails(b, "unexpected attribute")
       ELSE IF Len(a) # 2 THEN Fails(b, "len(a) should be 2")
       ELSE CASE s \in {"a", "u"} ->
                   IF a[2].t # "string"
                   THEN Fails(b, "value for 'a' attribute is not string")
                   ELSE IF s = "a" THEN Returns([b EXCEPT !.Link = a[2].s], NoErr)
                   ELSE Returns([b EXCEPT !.UserID = a[2].s], NoErr)
              [] s = "d" ->
                   \* v := a[1].(map[string]interface{}): no comma-ok form
                   IF a[2].t # "object" THEN Panics(b)
                   ELSE Returns([b EXCEPT !.Date = <<a[2].s>>], NoErr)
              [] OTHER -> Fails(b, "unexpected attribute")

RECURSIVE parseAttributes(_, _)
parseAttributes(b, a) ==
  IF a = <<>> THEN Returns(b, NoErr)
  ELSE LET rawAttr == Head(a) IN
       IF rawAttr.t # "array" THEN Fails(b, "rawAttr is not []interface{}")
       ELSE LET r == parseAttribute(b, rawAttr.e) IN
            IF r.panic \/ r.err # NoErr THEN r
            ELSE parseAttributes(r.val, Tail(a))

\* a is the element list of one span entry; val is <<block>> or <<>> (nil)
parseInlineBlock(a) ==
  IF Len(a) = 0 THEN Fails(<<>>, "a is empty")
  ELSE IF Len(a) = 1
  THEN IF a[1].t # "string" THEN Fails(<<>>, "a is of length 1 but not string")
       ELSE Returns(<<NewInlineBlock(a[1].s)>>, NoErr)
  ELSE IF Len(a) # 2 THEN Fails(<<>>, "a is of length != 2")
  ELSE IF a[1].t # "string" THEN Fails(<<>>, "a[0] is not string")
  ELSE IF a[2].t # "array" THEN Fails(<<>>, "a[1] is not []interface{}")
  ELSE LET r == parseAttributes(NewInlineBlock(a[1].s), a[2].e) IN
       IF r.panic THEN Panics(<<>>)
       ELSE IF r.err # NoErr THEN Returns(<<>>, r.err)
       ELSE Returns(<<r.val>>, NoErr)

RECURSIVE parseInlineBlocksLoop(_, _)
parseInlineBlocksLoop(res, a) ==
  IF a = <<>> THEN Returns(res, NoErr)
  ELSE LET v == Head(a) IN
       IF v.t # "array" THEN Fails(<<>>, "v is not []interface{}")
       ELSE LET r == parseInlineBlock(v.e) IN
            IF r.panic THEN Panics(<<>>)
            ELSE IF r.err # NoErr THEN Returns(<<>>, r.err)
            ELSE parseInlineBlocksLoop(Append(res, r.val[1]), Tail(a))

parseInlineBlocks(raw) ==
  IF raw.t # "array" THEN Fails(<<>>, "raw is not of []interface{}")
  ELSE IF Len(raw.e) = 0 THEN Fails(<<>>, "raw is empty")
  ELSE parseInlineBlocksLoop(<<>>, raw.e)

(***************************************************************************)
(* parseInlineBlocks on bounded inputs                                     *)
(***************************************************************************)
\* Most spans of one input.
MaxSpans == 2

\* Most attribute entries of one span.
MaxAttrs == 2

FlagCodes == {"b", "i", "s", "c"}

\* Attribute entries of the wire format.
GoodAttrs ==
  {JArr(<<JStr(c)>>) : c \in FlagCodes}
    \cup {JArr(<<JStr("a"), JStr("http://x")>>),
          JArr(<<JStr("u"), JStr("u1")>>),
          JArr(<<JStr("d"), JObj("date1")>>)}

\* Attribute entries outside it: not an array, wrong arity, an unknown code,
\* a code with the wrong arity, a value of the wrong type.
BadAttrs ==
  {JStr("b"),
   JArr(<<>>),
   JArr(<<JNum("1")>>),
   JArr(<<JStr("z")>>),
   JArr(<<JStr("a")>>),
   JArr(<<JStr("b"), JStr("x")>>),
   JArr(<<JStr("z"), JStr("x")>>),
   JArr(<<JStr("a"), JNum("1")>>),
   JArr(<<JStr("u"), JObj("date1")>>),
   JArr(<<JStr("d"), JStr("2019-01-01")>>),
   JArr(<<JStr("a"), JStr("x"), JStr("y")>>)}

Attrs == GoodAttrs \cup BadAttrs

\* Span entries of malformed shape, and the span without attributes.
OddSpans ==
  {JArr(<<JStr("click")>>),
   JStr("click"),
   JArr(<<>>),
   JArr(<<JNum("1")>>),
   JArr(<<JNum("1"), JArr(<<>>)>>),
   JArr(<<JStr("click"), JStr("b")>>),
   JArr(<<JStr("click"), JArr(<<>>), JStr("x")>>)}

SimpleSpans ==
  {JArr(<<JStr("hello")>>),
   JArr(<<JStr("world"), JArr(<<JArr(<<JStr("b")>>)>>)>>)}

\* The array of n spans that holds span at position p and the simple spans
\* elsewhere.
WithSpan(n, p, span, simple) ==
  JArr([k \in 1..n |-> IF k = p THEN span ELSE simple[k]])

InlineInput(raw) == [raw |-> <<raw>>, op |-> "input", out |-> <<>>]

\* Inputs: a value that is no array, the empty array, and arrays of up to
\* MaxSpans spans. One span of an array is an odd span or carries any list of
\* up to MaxAttrs attribute entries; the others are drawn from SimpleSpans.
InitInline ==
  /\ FetchIdle
  /\ mg = MgIdle
  /\ \/ \E raw \in {JStr("hello"), JArr(<<>>)} : il = InlineInput(raw)
     \/ \E n \in 1..MaxSpans : \E p \in 1..n : \E simple \in [1..n -> SimpleSpans] :
          \/ \E span \in OddSpans \cup SimpleSpans :
               il = InlineInput(WithSpan(n, p, span, simple))
          \/ \E k \in 0..MaxAttrs : \E l \in [1..k -> Attrs] :
               il = InlineInput(WithSpan(n, p, JArr(<<JStr("click"), JArr(l)>>), simple))

\* spans, err := parseInlineBlocks(raw)
ParseInline ==
  /\ il.op = "input"
  /\ il' = [il EXCEPT !.op = "parsed", !.out = <<parseInlineBlocks(il.raw[1])>>]
  /\ UNCHANGED <<fetchVars, mg>>

NextInline == ParseInline

SpecInline == InitInline /\ [][NextInline]_vars

\* The wire format of the rich text: a non-empty array of [text] or
\* [text, attrs] entries, attrs an array of [flag] or [code, value] entries.
WellFormedAttr(e) ==
  /\ e.t = "array"
  /\ Len(e.e) \in {1, 2}
  /\ e.e[1].t = "string"
  /\ Len(e.e) = 1 => e.e[1].s \in FlagCodes
  /\ Len(e.e) = 2 =>
       \/ e.e[1].s \in {"a", "u"} /\ e.e[2].t = "string"
       \/ e.e[1].s = "d" /\ e.e[2].t = "object"

WellFormedSpan(e) ==
  /\ e.t = "array"
  /\ Len(e.e) \in {1, 2}
  /\ e.e[1].t = "string"
  /\ Len(e.e) = 2 =>
       /\ e.e[2].t = "array"
       /\ \A j \in 1..Len(e.e[2].e) : WellFormedAttr(e.e[2].e[j])

WellFormed(raw) ==
  /\ raw.t = "array"
  /\ Len(raw.e) > 0
  /\ \A i \in 1..Len(raw.e) : WellFormedSpan(raw.e[i])

\* The attribute entries of a well-formed span entry.
AttrsOf(e) == IF Len(e.e) = 2 THEN e.e[2].e ELSE <<>>

\* The flag codes a span's attribute entries list.
ListedFlags(attrs) ==
  {attrs[j].e[1].s : j \in {j \in 1..Len(attrs) : Len(attrs[j].e) = 1}}

\* The flag codes whose bit is set in an AttrFlags value.
FlagsSet(x) ==
  {c \in FlagCodes :
     LET bit == CASE c = "b" -> AttrBold [] c = "i" -> AttrItalic
                  [] c = "s" -> AttrStrikeThrought [] c = "c" -> AttrCode
     IN (x \div bit) % 2 = 1}

\* The value of the last [code, value] entry with the given code, as a
\* sequence: empty when there is none.
ValueOf(attrs, code) ==
  LET J == {j \in 1..Len(attrs) : Len(attrs[j].e) = 2 /\ attrs[j].e[1].s = code} IN
  IF J = {} THEN <<>> ELSE <<attrs[Max(J)].e[2].s>>

\* The fields among Link, UserID and Date that a span has set.
SlotsSet(b) ==
  {x \in {"Link", "UserID", "Date"} :
     \/ x = "Link" /\ b.Link # ""
     \/ x = "UserID" /\ b.UserID # ""
     \/ x = "Date" /\ b.Date # <<>>}

(***************************************************************************)
(* C6: every InlineBlock of a successful parse has at most one of Link,    *)
(* UserID and Date set, also when its attribute list holds several of the  *)
(* codes "a", "u" and "d".                                                 *)
(***************************************************************************)
C6_OneExclusiveSlot ==
  (il.op = "parsed" /\ ~il.out[1].panic /\ il.out[1].err = NoErr) =>
    \A i \in 1..Len(il.out[1].val) : Cardinality(SlotsSet(il.out[1].val[i])) <= 1

(***************************************************************************)
(* C7: on every malformed input parseInlineBlocks returns a decode error   *)
(* and no spans; it does not panic and accepts no malformed entry.         *)
(***************************************************************************)
C7_MalformedIsDecodeError ==
  (il.op = "parsed" /\ ~WellFormed(il.raw[1])) =>
    /\ ~il.out[1].panic
    /\ il.out[1].err # NoErr
    /\ il.out[1].val = <<>>

(***************************************************************************)
(* C8: on a well-formed array of n span entries parseInlineBlocks returns  *)
(* n spans in input order; span i has entry i's text, exactly the flags    *)
(* its attribute entries list (whatever their order and repetition), Link  *)
(* and UserID from its "a" and "u" entries; a span entry without an        *)
(* attribute array gives a plain span.                                     *)
(***************************************************************************)
C8_WellFormedParse ==
  (il.op = "parsed" /\ WellFormed(il.raw[1])) =>
    LET a == il.raw[1].e
        out == il.out[1]
    IN /\ ~out.panic
       /\ out.err = NoErr
       /\ Len(out.val) = Len(a)
       /\ \A i \in 1..Len(a) :
            LET b == out.val[i]
                attrs == AttrsOf(a[i])
            IN /\ b.Text = a[i].e[1].s
               /\ FlagsSet(b.AttrFlags) = ListedFlags(attrs)
               /\ b.AttrFlags \in 0..15
               /\ b.Link = (IF ValueOf(attrs, "a") = <<>> THEN "" ELSE ValueOf(attrs, "a")[1])
               /\ b.UserID = (IF ValueOf(attrs, "u") = <<>> THEN "" ELSE ValueOf(attrs, "u")[1])
               /\ b.Date = ValueOf(attrs, "d")
               /\ Len(a[i].e) = 1 => IsPlain(b)

\* A plain span followed by a span with two flags.
C8_Witness ==
  /\ il.op = "parsed"
  /\ WellFormed(il.raw[1])
  /\ Len(il.out[1].val) = 2
  /\ il.out[1].val[1].Text = "hello"
  /\ IsPlain(il.out[1].val[1])
  /\ il.out[1].val[2].Text = "click"
  /\ il.out[1].val[2].AttrFlags = AttrBold + AttrItalic

====
